---- MODULE Spec2Model ----
(***************************************************************************)
(* The LLM-response parsers of src/src/App.jsx (parseFindings,             *)
(* parseRevenueFindings), the state they feed, and the scan lifecycle of   *)
(* App (runScan, the persist and parse effects, toggleResolvedFinding,     *)
(* resetAll) with the rollups the views compute from that state.           *)
(*                                                                         *)
(* A JavaScript string is a sequence of one-character strings.  Characters *)
(* outside ASCII are written by name: "eszett" is U+00DF (its upper case   *)
(* is the two characters "SS"), "endash" is U+2013.  Indices of the        *)
(* JavaScript string operations (indexOf, slice) are 0-based as in the     *)
(* source.                                                                 *)
(***************************************************************************)
EXTENDS Integers, Sequences, FiniteSets, TLC

VARIABLES
    alphabet,         \* which family of response pieces the upstream model emits,
                      \* "responses" when whole responses arrive (the scan lifecycle)
    scanMode,         \* "operational" or "revenue" (scanMode of App)
    text,             \* the response text received so far; in the scan lifecycle
                      \* the text of the last response (or error) a scan ended with
    received,         \* number of pieces received; in the scan lifecycle the number
                      \* of scans that ended
    pc,               \* "receiving" while the response arrives, "parsed" after; in
                      \* the scan lifecycle "awaiting" during the await of runScan,
                      \* "idle" otherwise
    parsedFindings,   \* parsedFindings of App: the value parseFindings returned
    revenueFindings,  \* revenueFindings of App: the value parseRevenueFindings returned
    threw,            \* TRUE when the parser call propagated an exception
    scanResults,          \* scanResults of App: null or {text, error}
    revenueScanResults,   \* revenueScanResults of App: null or {text, error}
    resolvedFindings,     \* resolvedFindings of App: the array of resolved ids
    store,                \* localStorage: the keys dao-scan, dao-revenue-scan, dao-resolved-findings
    scanning,             \* scanning of App
    running,              \* the scanMode the runScan call in flight closed over, "none" without one
    fetching,             \* the call of fetchWithRetry by callBriefAPI (BriefView.jsx): its
                          \* parameter retries, its loop variable i, its position pc, the
                          \* response res, and the history of the requests, statuses and waits
    sinceReset,           \* history: TRUE from a resetAll until the next runScan starts
    chatMsgs,             \* chatMsgs of App: the messages { role, content } of the chat
    streaming,            \* streaming of App: a chat answer is being received
    invoked               \* the parser the effects of the last step called: "parseFindings",
                          \* "parseRevenueFindings", or "none"

appVars == <<scanResults, revenueScanResults, resolvedFindings, store, scanning, running, sinceReset,
            fetching>>

vars == <<alphabet, scanMode, text, received, pc, parsedFindings, revenueFindings, threw, appVars, invoked, chatMsgs, streaming>>

-----------------------------------------------------------------------------
(* Characters and the JavaScript string primitives the parsers use.        *)

Digits == {"0", "1", "2", "3", "4", "5", "6", "7", "8", "9"}

DigitValue ==
    [c \in Digits |->
        CASE c = "0" -> 0 [] c = "1" -> 1 [] c = "2" -> 2 [] c = "3" -> 3
          [] c = "4" -> 4 [] c = "5" -> 5 [] c = "6" -> 6 [] c = "7" -> 7
          [] c = "8" -> 8 [] c = "9" -> 9]

\* \d of a RegExp without the u flag
IsDigit(c) == c \in Digits

\* \s of a RegExp, and the characters String.prototype.trim strips
IsSpace(c) == c \in {" ", "\n", "\t", "\r"}

LowerToUpper ==
    [c \in {"a", "b", "c", "d", "e", "f", "g", "h", "i", "j", "k", "l", "m",
            "n", "o", "p", "q", "r", "s", "t", "u", "v", "w", "x", "y", "z"} |->
        CASE c = "a" -> "A" [] c = "b" -> "B" [] c = "c" -> "C" [] c = "d" -> "D"
          [] c = "e" -> "E" [] c = "f" -> "F" [] c = "g" -> "G" [] c = "h" -> "H"
          [] c = "i" -> "I" [] c = "j" -> "J" [] c = "k" -> "K" [] c = "l" -> "L"
          [] c = "m" -> "M" [] c = "n" -> "N" [] c = "o" -> "O" [] c = "p" -> "P"
          [] c = "q" -> "Q" [] c = "r" -> "R" [] c = "s" -> "S" [] c = "t" -> "T"
          [] c = "u" -> "U" [] c = "v" -> "V" [] c = "w" -> "W" [] c = "x" -> "X"
          [] c = "y" -> "Y" [] c = "z" -> "Z"]

\* String.prototype.toUpperCase on one character: the result is a string,
\* two characters long for U+00DF.
UpperChar(c) ==
    IF c \in DOMAIN LowerToUpper THEN <<LowerToUpper[c]>>
    ELSE IF c = "eszett" THEN <<"S", "S">>
    ELSE <<c>>

\* String.prototype.toUpperCase: character by character, computed on the
\* two halves of the string
RECURSIVE ToUpperCase(_)
ToUpperCase(s) ==
    IF s = <<>> THEN <<>>
    ELSE IF Len(s) = 1 THEN UpperChar(s[1])
    ELSE LET half == Len(s) \div 2
         IN  ToUpperCase(SubSeq(s, 1, half)) \o ToUpperCase(SubSeq(s, half + 1, Len(s)))

\* Canonicalize of an ignore-case RegExp: the upper case of the character
\* when that is a single character, the character itself otherwise.
Canonicalize(c) ==
    IF c \in DOMAIN LowerToUpper THEN LowerToUpper[c] ELSE c

\* s has the literal lit at 0-based index i (case-sensitive)
HasAt(s, i, lit) ==
    /\ i >= 0
    /\ i + Len(lit) <= Len(s)
    /\ \A k \in 1..Len(lit) : s[i + k] = lit[k]

\* s has the upper-case literal lit at 0-based index i under the i flag
HasAtI(s, i, lit) ==
    /\ i >= 0
    /\ i + Len(lit) <= Len(s)
    /\ \A k \in 1..Len(lit) : Canonicalize(s[i + k]) = lit[k]

\* the first index from i on where lit occurs, or -1
IndexOfFrom(s, lit, i) ==
    LET hits == {k \in i..(Len(s) - Len(lit)) : HasAt(s, k, lit)}
    IN  IF hits = {} THEN -1
        ELSE CHOOSE k \in hits : \A m \in hits : k <= m

\* String.prototype.indexOf(lit): the first 0-based index, or -1
IndexOf(s, lit) == IndexOfFrom(s, lit, 0)

\* String.prototype.slice(from) for from >= 0
Slice(s, from) == IF from >= Len(s) THEN <<>> ELSE SubSeq(s, from + 1, Len(s))

\* String.prototype.split("\n")[0]: the text before the first newline
RECURSIVE FirstLineEnd(_, _)
FirstLineEnd(s, i) ==
    IF i >= Len(s) \/ s[i + 1] = "\n" THEN i ELSE FirstLineEnd(s, i + 1)

FirstLine(s) == SubSeq(s, 1, FirstLineEnd(s, 0))

RECURSIVE SkipSpaces(_, _)
SkipSpaces(s, i) ==
    IF i < Len(s) /\ IsSpace(s[i + 1]) THEN SkipSpaces(s, i + 1) ELSE i

RECURSIVE SkipDigits(_, _)
SkipDigits(s, i) ==
    IF i < Len(s) /\ IsDigit(s[i + 1]) THEN SkipDigits(s, i + 1) ELSE i

RECURSIVE LastNonSpace(_, _)
LastNonSpace(s, j) ==
    IF j > 0 /\ IsSpace(s[j]) THEN LastNonSpace(s, j - 1) ELSE j

\* String.prototype.trim
Trim(s) ==
    LET a == SkipSpaces(s, 0)
        b == LastNonSpace(s, Len(s))
    IN  IF a >= b THEN <<>> ELSE SubSeq(s, a + 1, b)

\* parseInt of a string of decimal digits; NaN for the empty string
NaN == -1

RECURSIVE DigitsValue(_, _)
DigitsValue(s, acc) ==
    IF s = <<>> THEN acc ELSE DigitsValue(Tail(s), 10 * acc + DigitValue[Head(s)])

ParseInt(s) == IF s = <<>> THEN NaN ELSE DigitsValue(s, 0)

\* n.replace(/,/g, "")
RECURSIVE StripCommas(_)
StripCommas(s) ==
    IF s = <<>> THEN <<>>
    ELSE IF Head(s) = "," THEN StripCommas(Tail(s))
    ELSE <<Head(s)>> \o StripCommas(Tail(s))

-----------------------------------------------------------------------------
(* The regular expressions of the parsers.                                 *)

FINDING == <<"F", "I", "N", "D", "I", "N", "G">>
OPPORTUNITY == <<"O", "P", "P", "O", "R", "T", "U", "N", "I", "T", "Y">>

\* HeaderAt without the i flag
HeaderAtCaseSensitive(s, i, keyword) ==
    /\ HasAt(s, i, keyword)
    /\ LET j == i + Len(keyword)
           k == SkipSpaces(s, j)
       IN  k > j /\ k < Len(s) /\ IsDigit(s[k + 1])

\* /KEYWORD\s+\d+/i matches at 0-based index i of s
HeaderAt(s, i, keyword) ==
    /\ HasAtI(s, i, keyword)
    /\ LET j == i + Len(keyword)
           k == SkipSpaces(s, j)
       IN  k > j /\ k < Len(s) /\ IsDigit(s[k + 1])

RECURSIVE HeaderSearch(_, _, _)
HeaderSearch(s, i, keyword) ==
    IF i >= Len(s) THEN -1
    ELSE IF HeaderAt(s, i, keyword) THEN i
    ELSE HeaderSearch(s, i + 1, keyword)

\* /KEYWORD\s+\d+/i.test(s)
TestHeader(s, keyword) == HeaderSearch(s, 0, keyword) # -1

\* TestError without the test: the error text is parsed like any other
TestErrorNever(s) == FALSE

\* /^Error/i.test(s)
TestError(s) == HasAtI(s, 0, <<"E", "R", "R", "O", "R">>)

\* section.match(/KEYWORD\s+(\d+)/i): null, or the first match's group 1
MatchHeaderNumber(section, keyword) ==
    LET i == HeaderSearch(section, 0, keyword)
    IN  IF i = -1 THEN [null |-> TRUE, group |-> <<>>]
        ELSE LET k == SkipSpaces(section, i + Len(keyword))
             IN  [null |-> FALSE,
                  group |-> SubSeq(section, k + 1, SkipDigits(section, k))]

\* text.split(/(?=KEYWORD\s+\d+)/i): the SplitMatcher loop of
\* String.prototype.split; p is the start of the current piece, q the index
\* tried next.  The separator is zero-width, so a match at q ends at q and
\* is skipped when q = p.

\* the loop's advance of q: the first index from q on, other than p, where
\* the separator matches; Len(s) when there is none
NextSplit(s, keyword, p, q) ==
    LET matches == {k \in q..(Len(s) - 1) : k # p /\ HeaderAt(s, k, keyword)}
    IN  IF matches = {} THEN Len(s)
        ELSE CHOOSE k \in matches : \A m \in matches : k <= m

RECURSIVE SplitLoop(_, _, _, _, _)
SplitLoop(s, keyword, p, q, parts) ==
    LET n == NextSplit(s, keyword, p, q)
    IN  IF n >= Len(s) THEN Append(parts, SubSeq(s, p + 1, Len(s)))
        ELSE SplitLoop(s, keyword, n, n, Append(parts, SubSeq(s, p + 1, n)))

SplitBeforeHeaders(s, keyword) == SplitLoop(s, keyword, 0, 0, <<>>)

RECURSIVE TierSearch(_, _)
TierSearch(s, i) ==
    IF i >= Len(s) THEN [null |-> TRUE, group |-> <<>>]
    ELSE LET k == SkipSpaces(s, i + 4)
         IN  IF HasAtI(s, i, <<"T", "I", "E", "R">>) /\ k < Len(s) /\ IsDigit(s[k + 1])
             THEN [null |-> FALSE, group |-> <<s[k + 1]>>]
             ELSE TierSearch(s, i + 1)

\* severity.match(/Tier\s*(\d)/i): null, or the first match's group 1
MatchTier(severity) == TierSearch(severity, 0)

IsAmountChar(c) == IsDigit(c) \/ c = ","

RECURSIVE SkipAmountChars(_, _)
SkipAmountChars(s, i) ==
    IF i < Len(s) /\ IsAmountChar(s[i + 1]) THEN SkipAmountChars(s, i + 1) ELSE i

RECURSIVE AmountRuns(_, _, _)
AmountRuns(s, i, runs) ==
    IF i >= Len(s) THEN runs
    ELSE IF IsAmountChar(s[i + 1])
         THEN LET e == SkipAmountChars(s, i)
              IN  AmountRuns(s, e, Append(runs, SubSeq(s, i + 1, e)))
         ELSE AmountRuns(s, i + 1, runs)

\* s.match(/[\d,]+/g): null when nothing matches, the array of matches otherwise
MatchAmounts(s) ==
    LET runs == AmountRuns(s, 0, <<>>)
    IN  [null |-> runs = <<>>, array |-> runs]

\* m || []
OrEmptyArray(m) == IF m.null THEN [null |-> FALSE, array |-> <<>>] ELSE m

RECURSIVE AnyCharSearch(_, _)
AnyCharSearch(s, i) ==
    IF i + 4 > Len(s) THEN FALSE
    ELSE \/ /\ s[i + 1] = "0" /\ s[i + 2] # "\n" /\ s[i + 2] # "\r"
            /\ s[i + 3] = "9" /\ s[i + 4] = "0"
         \/ AnyCharSearch(s, i + 1)

RECURSIVE TestLiteralI(_, _, _)
TestLiteralI(s, lit, i) ==
    IF i + Len(lit) > Len(s) THEN FALSE
    ELSE HasAtI(s, i, lit) \/ TestLiteralI(s, lit, i + 1)

\* /quick win|0.90|0-90/i.test(timeframe), the last alternative with U+2013
TestQuickWin(timeframe) ==
    \/ TestLiteralI(timeframe, <<"Q", "U", "I", "C", "K", " ", "W", "I", "N">>, 0)
    \/ AnyCharSearch(timeframe, 0)
    \/ TestLiteralI(timeframe, <<"0", "endash", "9", "0">>, 0)

-----------------------------------------------------------------------------
(* parseFindings and parseRevenueFindings.                                 *)

\* the value of a call: the array returned, or threw = TRUE when the call
\* ended by an exception
Returned(array) == [threw |-> FALSE, value |-> array]
Thrown == [threw |-> TRUE, value |-> <<>>]

\* getField of parseFindings
GetField(section, label) ==
    LET upper == ToUpperCase(section)
        searchLabel == ToUpperCase(label) \o <<":">>
        idx == IndexOf(upper, searchLabel)
    IN  IF idx = -1 THEN <<>>
        ELSE LET after == Slice(section, idx + Len(searchLabel))
             IN  Trim(FirstLine(after))

\* getField of parseRevenueFindings
GetFieldRevenue(section, label) ==
    LET upper == ToUpperCase(section)
        idx == IndexOf(upper, ToUpperCase(label) \o <<":">>)
    IN  IF idx = -1 THEN <<>>
        ELSE Trim(FirstLine(Slice(section, idx + Len(label) + 1)))

RECURSIVE MapParseInt(_)
MapParseInt(runs) ==
    IF runs = <<>> THEN <<>>
    ELSE <<ParseInt(StripCommas(Head(runs)))>> \o MapParseInt(Tail(runs))

\* GreaterThan999 with the bound off by one
GreaterOrEqual999(n) == n # NaN /\ n >= 999

\* n > 999 in JavaScript: false for NaN
GreaterThan999(n) == n # NaN /\ n > 999

\* Amounts without "|| []": the null of a failed match is spread
AmountsNoGuard(field) ==
    LET m == MatchAmounts(field)
    IN  IF m.null THEN Thrown
        ELSE Returned(SelectSeq(MapParseInt(m.array), GreaterThan999))

\* [...(field.match(/[\d,]+/g) || [])].map(n => parseInt(n.replace(/,/g, "")))
\*     .filter(n => n > 999);  spreading null throws a TypeError
Amounts(field) ==
    LET m == OrEmptyArray(MatchAmounts(field))
    IN  IF m.null THEN Thrown
        ELSE Returned(SelectSeq(MapParseInt(m.array), GreaterThan999))

RECURSIVE MathMax(_)
MathMax(ns) ==
    IF Len(ns) = 1 THEN ns[1]
    ELSE LET rest == MathMax(Tail(ns))
         IN  IF ns[1] > rest THEN ns[1] ELSE rest

\* amounts.length > 0 ? Math.max(...amounts) : 0
MaxAmount(amounts) == IF Len(amounts) > 0 THEN MathMax(amounts) ELSE 0

\* Math.max(...amounts) passes every amount as an argument of one call, and an
\* engine accepts only so many arguments (tens of thousands; V8 raises
\* "RangeError: Maximum call stack size exceeded" beyond that).  The limit is
\* scaled down to MaxArguments in the responses that study it (the alphabet
\* "spread") and is out of reach of every other response.
MaxArguments == 2

SpreadThrows(amounts) == alphabet = "spread" /\ Len(amounts) > MaxArguments

\* RoundDiv30 with Math.floor in the place of Math.round
FloorDiv30(x) == x \div 30

\* Math.round(x / 30) for an integer x >= 0: the nearest integer, halves up
RoundDiv30(x) == (x + 15) \div 30

\* maxAmount > 0 ? Math.round(maxAmount / 30) : 0
DailyCost(maxAmount) == IF maxAmount > 0 THEN RoundDiv30(maxAmount) ELSE 0

\* Tier with the empty string in the place of the default
TierNoDefault(severity) ==
    LET tierMatch == MatchTier(severity)
    IN  IF ~tierMatch.null THEN tierMatch.group ELSE <<>>

\* tierMatch ? tierMatch[1] : "2"
Tier(severity) ==
    LET tierMatch == MatchTier(severity)
    IN  IF ~tierMatch.null THEN tierMatch.group ELSE <<"2">>

\* RecordId with the position in the list for every record
RecordIdPositional(section, keyword, list) == Len(list) + 1

\* numMatch ? parseInt(numMatch[1]) : list.length + 1
RecordId(section, keyword, list) ==
    LET numMatch == MatchHeaderNumber(section, keyword)
    IN  IF ~numMatch.null THEN ParseInt(numMatch.group) ELSE Len(list) + 1

\* SkipSection without the test of the header
SkipSectionBlankOnly(section, keyword) == Trim(section) = <<>>

\* if (!section.trim() || !section.match(/^KEYWORD\s+\d+/i)) return;
SkipSection(section, keyword) ==
    Trim(section) = <<>> \/ ~HeaderAt(section, 0, keyword)

\* Admit without the test of the pattern
AdmitAlways(list, record) == Append(list, record)

\* if (record.pattern) list.push(record);
Admit(list, record) ==
    IF record.pattern # <<>> THEN Append(list, record) ELSE list

\* the callback of parts.forEach in parseFindings, as the value of the
\* findings array after it ran on one section
FindingSection(section, findings) ==
    IF SkipSection(section, FINDING) THEN Returned(findings)
    ELSE LET severity == GetField(section, <<"S", "E", "V", "E", "R", "I", "T", "Y">>)
             tier == Tier(severity)
             impact == GetField(section, <<"I", "M", "P", "A", "C", "T">>)
             amounts == Amounts(impact)
             maxAmount == MaxAmount(amounts.value)
             finding ==
                 [id |-> RecordId(section, FINDING, findings),
                  pattern |-> GetField(section, <<"P", "A", "T", "T", "E", "R", "N">>),
                  evidence |-> GetField(section, <<"E", "V", "I", "D", "E", "N", "C", "E">>),
                  recurrence |-> GetField(section, <<"R", "E", "C", "U", "R", "R", "E", "N", "C", "E">>),
                  impact |-> impact,
                  rootCause |-> GetField(section, <<"R", "O", "O", "T", " ", "C", "A", "U", "S", "E">>),
                  fix |-> GetField(section, <<"F", "I", "X">>),
                  tier |-> tier,
                  confidence |-> GetField(section, <<"C", "O", "N", "F", "I", "D", "E", "N", "C", "E">>),
                  assumptions |-> GetField(section, <<"A", "S", "S", "U", "M", "P", "T", "I", "O", "N", "S">>),
                  maxAmount |-> maxAmount,
                  dailyCost |-> DailyCost(maxAmount)]
         IN  IF amounts.threw \/ SpreadThrows(amounts.value) THEN Thrown
             ELSE Returned(Admit(findings, finding))

\* the callback of parts.forEach in parseRevenueFindings
OpportunitySection(section, opportunities) ==
    IF SkipSection(section, OPPORTUNITY) THEN Returned(opportunities)
    ELSE LET potential == GetFieldRevenue(section, <<"R", "E", "V", "E", "N", "U", "E", " ", "P", "O", "T", "E", "N", "T", "I", "A", "L">>)
             amounts == Amounts(potential)
             timeframe == GetFieldRevenue(section, <<"T", "I", "M", "E", "F", "R", "A", "M", "E">>)
             opp ==
                 [id |-> RecordId(section, OPPORTUNITY, opportunities),
                  category |-> GetFieldRevenue(section, <<"C", "A", "T", "E", "G", "O", "R", "Y">>),
                  pattern |-> GetFieldRevenue(section, <<"P", "A", "T", "T", "E", "R", "N">>),
                  evidence |-> GetFieldRevenue(section, <<"E", "V", "I", "D", "E", "N", "C", "E">>),
                  potential |-> potential,
                  timeframe |-> timeframe,
                  action |-> GetFieldRevenue(section, <<"A", "C", "T", "I", "O", "N">>),
                  confidence |-> GetFieldRevenue(section, <<"C", "O", "N", "F", "I", "D", "E", "N", "C", "E">>),
                  assumptions |-> GetFieldRevenue(section, <<"A", "S", "S", "U", "M", "P", "T", "I", "O", "N", "S">>),
                  maxAmount |-> MaxAmount(amounts.value),
                  isQuickWin |-> TestQuickWin(timeframe)]
         IN  IF amounts.threw \/ SpreadThrows(amounts.value) THEN Thrown
             ELSE Returned(Admit(opportunities, opp))

\* parts.forEach(callback): the sections in order; an exception in the
\* callback ends the loop
RECURSIVE ForEachFinding(_, _, _)
ForEachFinding(parts, i, findings) ==
    IF i > Len(parts) THEN Returned(findings)
    ELSE LET r == FindingSection(parts[i], findings)
         IN  IF r.threw THEN Thrown ELSE ForEachFinding(parts, i + 1, r.value)

RECURSIVE ForEachOpportunity(_, _, _)
ForEachOpportunity(parts, i, opportunities) ==
    IF i > Len(parts) THEN Returned(opportunities)
    ELSE LET r == OpportunitySection(parts[i], opportunities)
         IN  IF r.threw THEN Thrown ELSE ForEachOpportunity(parts, i + 1, r.value)

parseRevenueFindings(t) ==
    IF t = <<>> THEN Returned(<<>>)
    ELSE ForEachOpportunity(SplitBeforeHeaders(t, OPPORTUNITY), 1, <<>>)

parseFindings(t) ==
    IF t = <<>> THEN Returned(<<>>)
    ELSE IF TestError(t) \/ ~TestHeader(t, FINDING) THEN Returned(<<>>)
    ELSE LET parts == SplitBeforeHeaders(t, FINDING)
             r == IF Len(parts) = 0 THEN Returned(<<>>)
                  ELSE ForEachFinding(parts, 1, <<>>)
         IN  \* catch (err) { console.error(...); return []; }
             IF r.threw THEN Returned(<<>>) ELSE r

-----------------------------------------------------------------------------
(* The response texts.  The upstream model's compliance with the record    *)
(* template is not guaranteed, so a response is any concatenation of at    *)
(* most MaxPieces pieces of one family after the family's opening text.    *)

MaxPieces == 3

ScanModes == {"operational", "revenue"}

Keyword(mode) == IF mode = "operational" THEN FINDING ELSE OPPORTUNITY

\* the label of the field the amounts are read from
AmountLabel(mode) ==
    IF mode = "operational" THEN <<"I", "M", "P", "A", "C", "T">> ELSE <<"R", "E", "V", "E", "N", "U", "E", " ", "P", "O", "T", "E", "N", "T", "I", "A", "L">>

\* a header in mixed case with two spaces before the number
SecondHeader(mode) ==
    IF mode = "operational"
    THEN <<"F", "i", "n", "d", "i", "n", "g", " ", " ", "2", "\n">>
    ELSE <<"O", "p", "p", "o", "r", "t", "u", "n", "i", "t", "y", " ", " ", "2", "\n">>

\* whole lines: headers, PATTERN lines, an error line, a summary line
RecordPieces(mode) ==
    { Keyword(mode) \o <<" ", "1", "\n">>,
      SecondHeader(mode),
      <<"P", "A", "T", "T", "E", "R", "N", ":", " ", "a", "\n">>,
      <<"p", "a", "t", "t", "e", "r", "n", ":", " ", "\n">>,
      <<"E", "r", "r", "o", "r", ":", " ", "x", "\n">>,
      <<"S", "u", "m", "m", "a", "r", "y", "\n">> }

\* after a first record: the parts of a SEVERITY line, a line that mentions a
\* tier without the label, a character whose upper case is two characters
\* long, and a second record
SeverityPieces ==
    { <<"eszett">>,
      <<"S", "E", "V", "E", "R", "I", "T", "Y", ":">>,
      <<" ", "T", "i", "e", "r", " ", "3">>,
      <<" ", "T", "I", "E", "R", "5", "\n">>,
      <<"\n", "T", "i", "e", "r", " ", "1", " ", "s", "u", "p", "p", "l", "i", "e", "r">>,
      <<"F", "I", "N", "D", "I", "N", "G", " ", "2", "\n", "P", "A", "T", "T", "E", "R", "N", ":", " ", "b", "\n">> }

\* the parts of an amount text.  The two figures end in a character that is
\* no digit and no comma and the other pieces hold at most two digits, so
\* every number of a text stays below 2^31.
AmountPieces ==
    { <<" ", "R", "M", " ", "1", "8", "0", ",", "0", "0", "0", " ", "-">>,
      <<" ", "R", "M", " ", "3", "2", "0", ",", "0", "0", "0", " ">>,
      <<",">>,
      <<"9">>,
      <<"9", "9">>,
      <<"1", "0">>,
      <<"0", "0">> }

\* after a first opportunity: the parts of a TIMEFRAME text
TimeframePieces ==
    { <<" ", "Q", "u", "i", "c", "k", " ", "W", "I", "N">>,
      <<" ", "(", "0", "-", "9", "0", " ", "d", "a", "y", "s", ")">>,
      <<" ", "0">>,
      <<"endash">>,
      <<".">>,
      <<"9", "0", " ", "d", "a", "y", "s", "\n">> }

\* after a first record and the label of its amount field: amounts, a
\* second record up to the label of its amount field, a line of commentary
SpreadPieces(mode) ==
    { <<" ", "1", ",", "0", "0", "0">>,
      <<" ", "2", "0", "0", "0", " ", "3", "0", "0", "0">>,
      <<"\n">> \o Keyword(mode) \o <<" ", "2", "\n", "P", "A", "T", "T", "E", "R", "N", ":", " ", "b", "\n">> \o AmountLabel(mode) \o <<":">>,
      <<"\n", "n", "o", "t", "e">> }

\* after a record that holds every other field of the template: the lines
\* of three fields, one of them also with a character whose upper case is
\* two characters long
FieldPieces(mode) ==
    { <<"P", "A", "T", "T", "E", "R", "N", ":", "a", "\n">>,
      <<"E", "V", "I", "D", "E", "N", "C", "E", ":", "b", "\n">>,
      <<"E", "V", "I", "D", "E", "N", "C", "E", ":">> \o <<"eszett">> \o <<"b", "\n">>,
      IF mode = "operational" THEN <<"S", "E", "V", "E", "R", "I", "T", "Y", ":", "T", "i", "e", "r", " ", "3", "\n">> ELSE <<"T", "I", "M", "E", "F", "R", "A", "M", "E", ":", "Q", "u", "i", "c", "k", " ", "w", "i", "n", "\n">> }

Alphabets == {"records", "severity", "amounts", "timeframe", "spread", "fields"}

Scenarios ==
    {<<"records", "operational">>, <<"records", "revenue">>,
     <<"severity", "operational">>,
     <<"amounts", "operational">>, <<"amounts", "revenue">>,
     <<"timeframe", "revenue">>}

Pieces(a, mode) ==
    CASE a = "records" -> RecordPieces(mode)
      [] a = "severity" -> SeverityPieces
      [] a = "amounts" -> AmountPieces
      [] a = "timeframe" -> TimeframePieces
      [] a = "spread" -> SpreadPieces(mode)
      [] a = "fields" -> FieldPieces(mode)

Opening(a, mode) ==
    CASE a = "records" -> <<>>
      [] a = "severity" -> <<"F", "I", "N", "D", "I", "N", "G", " ", "1", "\n", "P", "A", "T", "T", "E", "R", "N", ":", " ", "a", "\n">>
      [] a \in {"amounts", "spread"} ->
            Keyword(mode) \o <<" ", "1", "\n", "P", "A", "T", "T", "E", "R", "N", ":", " ", "a", "\n">> \o AmountLabel(mode) \o <<":">>
      [] a = "timeframe" -> <<"O", "P", "P", "O", "R", "T", "U", "N", "I", "T", "Y", " ", "1", "\n", "P", "A", "T", "T", "E", "R", "N", ":", " ", "a", "\n", "T", "I", "M", "E", "F", "R", "A", "M", "E", ":">>
      [] a = "fields" ->
            IF mode = "operational"
            THEN <<"F", "I", "N", "D", "I", "N", "G", " ", "1", "\n", "R", "E", "C", "U", "R", "R", "E", "N", "C", "E", ":", "c", "\n", "I", "M", "P", "A", "C", "T", ":", "5", "0", "0", "0", "\n", "R", "O", "O", "T", " ", "C", "A", "U", "S", "E", ":", "d", "\n", "F", "I", "X", ":", "e", "\n", "C", "O", "N", "F", "I", "D", "E", "N", "C", "E", ":", "f", "\n", "A", "S", "S", "U", "M", "P", "T", "I", "O", "N", "S", ":", "g", "\n">>
            ELSE <<"O", "P", "P", "O", "R", "T", "U", "N", "I", "T", "Y", " ", "1", "\n", "C", "A", "T", "E", "G", "O", "R", "Y", ":", "c", "\n", "R", "E", "V", "E", "N", "U", "E", " ", "P", "O", "T", "E", "N", "T", "I", "A", "L", ":", "5", "0", "0", "0", "\n", "A", "C", "T", "I", "O", "N", ":", "e", "\n", "C", "O", "N", "F", "I", "D", "E", "N", "C", "E", ":", "f", "\n", "A", "S", "S", "U", "M", "P", "T", "I", "O", "N", "S", ":", "g", "\n">>

-----------------------------------------------------------------------------
(* The state machine: the response arrives piece by piece; once it is      *)
(* settled the effect of App parses it into the findings state.            *)

\* null, and an object { text, timestamp, error } without its timestamp
Null == [null |-> TRUE, text |-> <<>>, error |-> FALSE]

ScanResult(t, isError) == [null |-> FALSE, text |-> t, error |-> isError]

\* localStorage before the first write
EmptyStore ==
    [scan |-> Null, revenueScan |-> Null, resolved |-> [null |-> TRUE, value |-> <<>>]]

\* BriefView before callBriefAPI is called
NoBriefYet ==
    fetching = [retries |-> 0, i |-> 0, pc |-> "idle", res |-> 0, error |-> "none",
                requests |-> 0, statuses |-> <<>>, waits |-> <<>>]

\* the chat before the first message
NoChatYet ==
    /\ chatMsgs = <<>>
    /\ streaming = FALSE

\* the state of App before any scan, for a response whose text is examined
\* piece by piece
NoScanYet ==
    /\ scanResults = Null
    /\ revenueScanResults = Null
    /\ resolvedFindings = <<>>
    /\ store = EmptyStore
    /\ scanning = FALSE
    /\ running = "none"
    /\ sinceReset = FALSE

Init ==
    /\ \E sc \in Scenarios :
          /\ alphabet = sc[1]
          /\ scanMode = sc[2]
          /\ text = Opening(sc[1], sc[2])
    /\ received = 0
    /\ pc = "receiving"
    /\ parsedFindings = <<>>
    /\ revenueFindings = <<>>
    /\ threw = FALSE
    /\ invoked = "none"
    /\ NoScanYet
    /\ NoChatYet
    /\ NoBriefYet

Receive(piece) ==
    /\ pc = "receiving"
    /\ received < MaxPieces
    /\ text' = text \o piece
    /\ received' = received + 1
    /\ UNCHANGED <<alphabet, scanMode, pc, parsedFindings, revenueFindings, threw, appVars, invoked, chatMsgs, streaming>>

\* useEffect(() => { if (scanResults?.text)
\*     setParsedFindings(parseFindings(scanResults.text)); }, [scanResults])
ParseScanResults ==
    /\ pc = "receiving"
    /\ scanMode = "operational"
    /\ text # <<>>
    /\ \E r \in {parseFindings(text)} :
           /\ threw' = r.threw
           /\ parsedFindings' = IF r.threw THEN parsedFindings ELSE r.value
    /\ invoked' = "parseFindings"
    /\ pc' = "parsed"
    /\ UNCHANGED <<chatMsgs, streaming, alphabet, scanMode, text, received, revenueFindings, appVars>>

\* useEffect(() => { if (revenueScanResults?.text)
\*     setRevenueFindings(parseRevenueFindings(revenueScanResults.text)); },
\*     [revenueScanResults])
ParseRevenueScanResults ==
    /\ pc = "receiving"
    /\ scanMode = "revenue"
    /\ text # <<>>
    /\ \E r \in {parseRevenueFindings(text)} :
           /\ threw' = r.threw
           /\ revenueFindings' = IF r.threw THEN revenueFindings ELSE r.value
    /\ invoked' = "parseRevenueFindings"
    /\ pc' = "parsed"
    /\ UNCHANGED <<chatMsgs, streaming, alphabet, scanMode, text, received, parsedFindings, appVars>>

Next ==
    \/ \E piece \in Pieces(alphabet, scanMode) : Receive(piece)
    \/ ParseScanResults
    \/ ParseRevenueScanResults

Spec == Init /\ [][Next]_vars

\* the same machine on responses whose amount fields reach the engine's
\* limit on the arguments of one call
InitSpread ==
    /\ alphabet = "spread"
    /\ scanMode \in ScanModes
    /\ text = Opening("spread", scanMode)
    /\ received = 0
    /\ pc = "receiving"
    /\ parsedFindings = <<>>
    /\ revenueFindings = <<>>
    /\ threw = FALSE
    /\ invoked = "none"
    /\ NoScanYet
    /\ NoChatYet
    /\ NoBriefYet

SpecSpread == InitSpread /\ [][Next]_vars

\* the same machine on one record whose field lines arrive in any order
InitFields ==
    /\ alphabet = "fields"
    /\ scanMode \in ScanModes
    /\ text = Opening("fields", scanMode)
    /\ received = 0
    /\ pc = "receiving"
    /\ parsedFindings = <<>>
    /\ revenueFindings = <<>>
    /\ threw = FALSE
    /\ invoked = "none"
    /\ NoScanYet
    /\ NoChatYet
    /\ NoBriefYet

SpecFields == InitFields /\ [][Next]_vars

-----------------------------------------------------------------------------
(* What the views compute from parsedFindings and resolvedFindings when    *)
(* they render.                                                            *)

\* array.includes(id)
Includes(array, id) == \E k \in 1..Len(array) : array[k] = id

\* findings.filter(f => !resolvedFindings.includes(f.id))
FilterActive(findings, resolved) ==
    SelectSeq(findings, LAMBDA f : ~Includes(resolved, f.id))

\* list.reduce((s, f) => s + f.maxAmount, 0)
RECURSIVE ReduceMaxAmount(_, _)
ReduceMaxAmount(list, s) ==
    IF list = <<>> THEN s ELSE ReduceMaxAmount(Tail(list), s + Head(list).maxAmount)

\* the ACTIVE FINDINGS and FINANCIAL EXPOSURE cards of the dashboard
DashboardCards ==
    [active |-> Len(FilterActive(parsedFindings, resolvedFindings)),
     exposure |-> ReduceMaxAmount(FilterActive(parsedFindings, resolvedFindings), 0)]

\* ScanViewHeader with the sum taken over every finding
ScanViewHeaderUnfiltered ==
    [active |-> Len(FilterActive(parsedFindings, resolvedFindings)),
     exposure |-> ReduceMaxAmount(parsedFindings, 0)]

\* the "active" and "exposure" figures above the cards of the scan view
ScanViewHeader ==
    [active |-> Len(FilterActive(parsedFindings, resolvedFindings)),
     exposure |-> ReduceMaxAmount(FilterActive(parsedFindings, resolvedFindings), 0)]

\* the Command Centre line of the board report
BoardReport ==
    LET activeF == FilterActive(parsedFindings, resolvedFindings)
        totalExp == ReduceMaxAmount(activeF, 0)
    IN  [active |-> Len(activeF), exposure |-> totalExp]

\* parseInt(b.tier) - parseInt(a.tier), falsy (0) when a tier is no number
TierDifference(a, b) ==
    IF ParseInt(a.tier) = NaN \/ ParseInt(b.tier) = NaN THEN 0
    ELSE ParseInt(b.tier) - ParseInt(a.tier)

\* (a, b) => parseInt(b.tier) - parseInt(a.tier)
CompareTier(a, b) == TierDifference(a, b)

\* (a, b) => parseInt(b.tier) - parseInt(a.tier) || b.dailyCost - a.dailyCost
ComparePriority(a, b) ==
    IF TierDifference(a, b) # 0 THEN TierDifference(a, b)
    ELSE b.dailyCost - a.dailyCost

Compare(a, b, byCost) == IF byCost THEN ComparePriority(a, b) ELSE CompareTier(a, b)

\* Array.prototype.sort is stable: an element goes after every element the
\* comparator does not put behind it
RECURSIVE InsertSorted(_, _, _)
InsertSorted(sorted, x, byCost) ==
    IF sorted = <<>> THEN <<x>>
    ELSE IF Compare(Head(sorted), x, byCost) <= 0
         THEN <<Head(sorted)>> \o InsertSorted(Tail(sorted), x, byCost)
         ELSE <<x>> \o sorted

RECURSIVE SortLoop(_, _, _)
SortLoop(list, sorted, byCost) ==
    IF list = <<>> THEN sorted
    ELSE SortLoop(Tail(list), InsertSorted(sorted, Head(list), byCost), byCost)

\* list.sort(compare)
Sort(list, byCost) == SortLoop(list, <<>>, byCost)

\* list.slice(0, 3)
SliceTop3(list) == IF Len(list) <= 3 THEN list ELSE SubSeq(list, 1, 3)

\* TopPriorities sorted by tier alone
TopPrioritiesByTier ==
    SliceTop3(Sort(FilterActive(parsedFindings, resolvedFindings), FALSE))

\* TOP PRIORITIES THIS WEEK of the dashboard
TopPriorities ==
    SliceTop3(Sort(FilterActive(parsedFindings, resolvedFindings), TRUE))

\* the cards of the scan view: [...parsedFindings].sort(by tier)
ScanViewCards == Sort(parsedFindings, FALSE)

\* HealthRing with the two thresholds exchanged
HealthRingSwapped(resolved, total) ==
    LET pct == IF total > 0 THEN [num |-> resolved, den |-> total] ELSE [num |-> 0, den |-> 1]
    IN  [pct |-> pct,
         strokeColor |-> IF 10 * pct.num >= 3 * pct.den THEN "#10B981"
                         ELSE IF 10 * pct.num >= 7 * pct.den THEN "#F59E0B"
                         ELSE "#EF4444"]

\* HealthRing({ resolved, total }): pct as a fraction num / den, compared
\* with 0.7 and 0.3 by cross-multiplication
HealthRing(resolved, total) ==
    LET pct == IF total > 0 THEN [num |-> resolved, den |-> total] ELSE [num |-> 0, den |-> 1]
    IN  [pct |-> pct,
         strokeColor |-> IF 10 * pct.num >= 7 * pct.den THEN "#10B981"
                         ELSE IF 10 * pct.num >= 3 * pct.den THEN "#F59E0B"
                         ELSE "#EF4444"]

\* <HealthRing resolved={resolvedFindings.length} total={parsedFindings.length}/>
DashboardHealth == HealthRing(Len(resolvedFindings), Len(parsedFindings))

\* AfterRender for a scan view that sorts parsedFindings itself
AfterRenderSortedInPlace(findings) == Sort(findings, FALSE)

\* what rendering leaves in the parsedFindings array: the dashboard sorts the
\* array filter() returned and the scan view sorts the copy [...parsedFindings]
AfterRender(findings) == findings

-----------------------------------------------------------------------------
(* The scan lifecycle of App.  callClaudeSync resolves to one of a few     *)
(* whole response texts or rejects; the user toggles findings, switches    *)
(* the scan mode and resets between and during scans.                      *)

MaxScans == 2

\* three findings in the reverse of their priority order: tiers 2, 2, 3
\* with the amounts 3,000, 9,000, 6,000
ThreeFindings ==
    <<"F", "I", "N", "D", "I", "N", "G", " ", "1", "\n", "P", "A", "T", "T", "E", "R", "N", ":", "a", "\n", "I", "M", "P", "A", "C", "T", ":", "3", "0", "0", "0", "\n">>
    \o <<"F", "I", "N", "D", "I", "N", "G", " ", "2", "\n", "P", "A", "T", "T", "E", "R", "N", ":", "b", "\n", "I", "M", "P", "A", "C", "T", ":", "9", "0", "0", "0", "\n">>
    \o <<"F", "I", "N", "D", "I", "N", "G", " ", "3", "\n", "I", "M", "P", "A", "C", "T", ":", "6", "0", "0", "0", "\n", "S", "E", "V", "E", "R", "I", "T", "Y", ":", "T", "i", "e", "r", "3", "\n", "P", "A", "T", "T", "E", "R", "N", ":", "c">>

\* two findings of the same tier and the same daily cost
TwoFindings == <<"F", "I", "N", "D", "I", "N", "G", " ", "1", "\n", "P", "A", "T", "T", "E", "R", "N", ":", "x", "\n", "F", "I", "N", "D", "I", "N", "G", " ", "2", "\n", "P", "A", "T", "T", "E", "R", "N", ":", "z", "\n">>

\* two findings under the same header number
RepeatedNumber == <<"F", "I", "N", "D", "I", "N", "G", " ", "1", "\n", "P", "A", "T", "T", "E", "R", "N", ":", "x", "\n", "F", "I", "N", "D", "I", "N", "G", " ", "1", "\n", "P", "A", "T", "T", "E", "R", "N", ":", "z", "\n">>

NoFindings == <<"N", "o", " ", "f", "i", "n", "d", "i", "n", "g", "s", ".", "\n">>

OneOpportunity == <<"O", "P", "P", "O", "R", "T", "U", "N", "I", "T", "Y", " ", "1", "\n", "P", "A", "T", "T", "E", "R", "N", ":", " ", "a", "\n", "R", "E", "V", "E", "N", "U", "E", " ", "P", "O", "T", "E", "N", "T", "I", "A", "L", ":", " ", "R", "M", " ", "2", "0", ",", "0", "0", "0", "\n">>

\* return data.text || "": the texts callClaudeSync resolves to
Responses(mode) ==
    IF mode = "operational"
    THEN {ThreeFindings, TwoFindings, RepeatedNumber, NoFindings, <<>>}
    ELSE {OneOpportunity, <<>>}

\* the messages of the errors callClaudeSync throws
ErrorMessages == {<<"A", "P", "I", " ", "e", "r", "r", "o", "r", " ", "(", "5", "0", "0", ")">>, <<"R", "e", "q", "u", "e", "s", "t", " ", "t", "i", "m", "e", "d", " ", "o", "u", "t", ".", " ", "P", "l", "e", "a", "s", "e", " ", "t", "r", "y", " ", "a", "g", "a", "i", "n", ".">>}

\* `Error running scan: ${e.message}`
ErrorText(message) == <<"E", "r", "r", "o", "r", " ", "r", "u", "n", "n", "i", "n", "g", " ", "s", "c", "a", "n", ":", " ">> \o message

InitApp ==
    /\ alphabet = "responses"
    /\ scanMode = "operational"
    /\ text = <<>>
    /\ received = 0
    /\ pc = "idle"
    /\ parsedFindings = <<>>
    /\ revenueFindings = <<>>
    /\ threw = FALSE
    /\ scanResults = Null
    /\ revenueScanResults = Null
    /\ resolvedFindings = <<>>
    \* the persist effect of resolvedFindings runs on mount
    /\ store = [EmptyStore EXCEPT !.resolved = [null |-> FALSE, value |-> <<>>]]
    /\ scanning = FALSE
    /\ running = "none"
    /\ sinceReset = FALSE
    /\ invoked = "none"
    /\ NoChatYet
    /\ NoBriefYet

\* onClick={() => setScanMode(mode)}
SetScanMode(mode) ==
    /\ alphabet = "responses"
    /\ mode # scanMode
    /\ scanMode' = mode
    /\ parsedFindings' = AfterRender(parsedFindings)
    /\ invoked' = "none"
    /\ UNCHANGED <<chatMsgs, streaming, alphabet, text, received, pc, revenueFindings, threw, appVars>>

\* ResolvedAfterScan for a runScan that clears the resolved ids
ResolvedClearedByScan(prev) == <<>>

\* resolvedFindings after a step of runScan, which never calls
\* setResolvedFindings
ResolvedAfterScan(prev) == prev

\* runScan up to the await: every button that calls it is disabled or hidden
\* while scanning; datasets are taken as uploaded
RunScan ==
    /\ alphabet = "responses"
    /\ ~scanning
    /\ received < MaxScans
    /\ scanning' = TRUE
    /\ running' = scanMode
    /\ sinceReset' = FALSE
    /\ pc' = "awaiting"
    /\ IF scanMode = "revenue"
       THEN revenueScanResults' = Null /\ UNCHANGED scanResults
       ELSE scanResults' = Null /\ UNCHANGED revenueScanResults
    \* the effects of scanResults / revenueScanResults do nothing on null
    /\ parsedFindings' = AfterRender(parsedFindings)
    /\ resolvedFindings' = ResolvedAfterScan(resolvedFindings)
    /\ invoked' = "none"
    /\ UNCHANGED <<chatMsgs, streaming, alphabet, scanMode, text, received, revenueFindings, threw, store,
                   fetching>>

\* setScanResults(results) or setRevenueScanResults(results) of the call in
\* flight, the persist and parse effects that follow, and setScanning(false);
\* r is the value the parser call of the effect returns
\* ScanningAfterScan for a runScan that calls setScanning(false) at the end
\* of the try block only
ScanningResetInTry(failed) == failed

\* setScanning(false) follows the try / catch statement: it runs after the
\* call resolved and after the catch block alike
ScanningAfterScan(failed) == FALSE

Settle(results) ==
    /\ IF running = "revenue"
       THEN \E r \in {parseRevenueFindings(results.text)} :
                /\ revenueScanResults' = results
                /\ store' = [store EXCEPT !.revenueScan = results]
                /\ IF results.text # <<>>
                   THEN /\ threw' = r.threw
                        /\ revenueFindings' = IF r.threw THEN revenueFindings ELSE r.value
                        /\ invoked' = "parseRevenueFindings"
                   ELSE /\ invoked' = "none"
                        /\ UNCHANGED <<threw, revenueFindings>>
                /\ parsedFindings' = AfterRender(parsedFindings)
                /\ UNCHANGED scanResults
       ELSE \E r \in {parseFindings(results.text)} :
                /\ scanResults' = results
                /\ store' = [store EXCEPT !.scan = results]
                /\ IF results.text # <<>>
                   THEN /\ threw' = r.threw
                        /\ parsedFindings' = AfterRender(IF r.threw THEN parsedFindings ELSE r.value)
                        /\ invoked' = "parseFindings"
                   ELSE /\ threw' = threw
                        /\ invoked' = "none"
                        /\ parsedFindings' = AfterRender(parsedFindings)
                /\ UNCHANGED <<revenueScanResults, revenueFindings>>
    /\ text' = results.text
    /\ received' = received + 1
    /\ scanning' = ScanningAfterScan(results.error)
    /\ running' = "none"
    /\ pc' = "idle"
    /\ resolvedFindings' = ResolvedAfterScan(resolvedFindings)
    /\ UNCHANGED <<alphabet, scanMode, chatMsgs, streaming, sinceReset, fetching>>

\* const result = await callClaudeSync(...); set...Results({ text: result })
ScanResolves(result) ==
    /\ alphabet = "responses"
    /\ pc = "awaiting"
    /\ result \in Responses(running)
    /\ Settle(ScanResult(result, FALSE))

\* catch (e) { errObj = { text: `Error running scan: ${e.message}`, error: true } ... }
ScanRejects(message) ==
    /\ alphabet = "responses"
    /\ pc = "awaiting"
    /\ Settle(ScanResult(ErrorText(message), TRUE))

\* prev.filter(x => x !== id)
Without(array, id) == SelectSeq(array, LAMBDA x : x # id)

\* Toggled without the removal
ToggledAppendOnly(prev, id) == Append(prev, id)

\* prev => prev.includes(id) ? prev.filter(x => x !== id) : [...prev, id]
Toggled(prev, id) ==
    IF Includes(prev, id) THEN Without(prev, id) ELSE Append(prev, id)

\* the ids of the cards the scan view shows: the view renders FindingCard
\* only when not scanning, in operational mode, for a truthy scanResults.text
CardIds ==
    IF ~scanning /\ scanMode = "operational" /\ ~scanResults.null /\ scanResults.text # <<>>
    THEN {parsedFindings[k].id : k \in 1..Len(parsedFindings)}
    ELSE {}

\* onToggle of a FindingCard, and the persist effect of resolvedFindings
ToggleResolvedFinding(id) ==
    /\ alphabet = "responses"
    /\ id \in CardIds
    /\ resolvedFindings' = Toggled(resolvedFindings, id)
    /\ store' = [store EXCEPT !.resolved = [null |-> FALSE, value |-> Toggled(resolvedFindings, id)]]
    /\ parsedFindings' = AfterRender(parsedFindings)
    /\ invoked' = "none"
    /\ UNCHANGED <<chatMsgs, streaming, alphabet, scanMode, text, received, pc, revenueFindings, threw,
                   scanResults, revenueScanResults, scanning, running, sinceReset, fetching>>

\* resetAll: the keys are deleted and the state is cleared; the persist
\* effect of resolvedFindings then writes the new empty array.  scanning is
\* not reset and a call in flight goes on.
ResetAll ==
    /\ alphabet = "responses"
    /\ scanResults' = Null
    /\ revenueScanResults' = Null
    /\ resolvedFindings' = <<>>
    /\ parsedFindings' = AfterRender(<<>>)
    /\ revenueFindings' = <<>>
    /\ scanMode' = "operational"
    /\ store' = [EmptyStore EXCEPT !.resolved = [null |-> FALSE, value |-> <<>>]]
    /\ chatMsgs' = <<>>
    /\ invoked' = "none"
    /\ sinceReset' = TRUE
    /\ UNCHANGED <<alphabet, text, received, pc, threw, scanning, running, streaming, fetching>>

NextApp ==
    \/ \E mode \in ScanModes : SetScanMode(mode)
    \/ RunScan
    \/ \E result \in Responses(running) : ScanResolves(result)
    \/ \E message \in ErrorMessages : ScanRejects(message)
    \/ \E id \in CardIds : ToggleResolvedFinding(id)
    \/ ResetAll

SpecApp == InitApp /\ [][NextApp]_vars

\* the await of runScan ends: the promise of callClaudeSync settles (the
\* request is aborted after 90 s when no response has arrived) and the
\* continuation of runScan is run
AwaitSettles ==
    \/ \E result \in Responses(running) : ScanResolves(result)
    \/ \E message \in ErrorMessages : ScanRejects(message)

\* the scans alone (no toggles), under the fairness of the await
NextScan ==
    \/ \E mode \in ScanModes : SetScanMode(mode)
    \/ RunScan
    \/ AwaitSettles
    \/ ResetAll

FairSpecScan == InitApp /\ [][NextScan]_vars /\ WF_vars(AwaitSettles)

-----------------------------------------------------------------------------
(* The chat: sendMessage streams the answer with callClaude and shows the  *)
(* text received so far in the last message, while scans go on as above    *)
(* (in the operational mode, the mode App starts in).                      *)

MaxMessages == 1

\* the question typed, and the chunks of an answer that quotes findings
ChatInput == <<"q">>

ChatChunks ==
    << <<"F", "I", "N", "D", "I", "N", "G", " ", "1", "\n", "P", "A", "T", "T", "E", "R", "N", ":", "x", "\n">>,
       <<"F", "I", "N", "D", "I", "N", "G", " ", "2", "\n", "P", "A", "T", "T", "E", "R", "N", ":", "z", "\n">> >>

\* `full` of callClaude after k chunks
RECURSIVE Full(_)
Full(k) == IF k = 0 THEN <<>> ELSE Full(k - 1) \o ChatChunks[k]

Message(role, content) == [role |-> role, content |-> content]

\* sendMessage up to the await of callClaude
SendMessage ==
    /\ alphabet = "responses"
    /\ ~streaming
    /\ Len(chatMsgs) < 2 * MaxMessages
    /\ chatMsgs' = chatMsgs \o <<Message("user", ChatInput), Message("assistant", <<>>)>>
    /\ streaming' = TRUE
    /\ invoked' = "none"
    /\ UNCHANGED <<alphabet, scanMode, text, received, pc, parsedFindings, revenueFindings,
                   threw, appVars>>

\* ScanResultsAfterChunk for a callback that shows the partial text as the
\* scan result
ChunkShownAsScanResults(prev, partial) == ScanResult(partial, FALSE)

\* scanResults after the onChunk callback, which only calls setChatMsgs
ScanResultsAfterChunk(prev, partial) == prev

\* onChunk?.(full): the callback of sendMessage replaces the content of the
\* last message by the text received so far; the parse effect runs when
\* scanResults changed
StreamChunk(k) ==
    /\ alphabet = "responses"
    /\ streaming
    /\ chatMsgs # <<>>
    /\ k \in 1..Len(ChatChunks)
    /\ chatMsgs[Len(chatMsgs)] = Message("assistant", Full(k - 1))
    /\ chatMsgs' = [chatMsgs EXCEPT ![Len(chatMsgs)] = Message("assistant", Full(k))]
    /\ scanResults' = ScanResultsAfterChunk(scanResults, Full(k))
    /\ \E r \in {parseFindings(Full(k))} :
           IF ScanResultsAfterChunk(scanResults, Full(k)) # scanResults
           THEN /\ parsedFindings' = r.value
                /\ threw' = r.threw
                /\ invoked' = "parseFindings"
           ELSE /\ invoked' = "none"
                /\ UNCHANGED <<parsedFindings, threw>>
    /\ UNCHANGED <<alphabet, scanMode, text, received, pc, revenueFindings,
                   revenueScanResults, resolvedFindings, store, scanning, running, streaming,
                   sinceReset, fetching>>

\* the reader is done: callClaude returns and sendMessage ends
ChatResolves ==
    /\ alphabet = "responses"
    /\ streaming
    /\ streaming' = FALSE
    /\ invoked' = "none"
    /\ UNCHANGED <<alphabet, scanMode, text, received, pc, parsedFindings, revenueFindings,
                   threw, appVars, chatMsgs>>

\* catch (e) of sendMessage: the error replaces an empty last answer and is
\* pushed as a new message otherwise
ChatRejects(message) ==
    /\ alphabet = "responses"
    /\ streaming
    /\ chatMsgs # <<>>
    /\ LET last == chatMsgs[Len(chatMsgs)]
           error == Message("assistant", <<"E", "r", "r", "o", "r", ":", " ">> \o message)
       IN  chatMsgs' = IF last.role = "assistant" /\ last.content = <<>>
                       THEN [chatMsgs EXCEPT ![Len(chatMsgs)] = error]
                       ELSE Append(chatMsgs, error)
    /\ streaming' = FALSE
    /\ invoked' = "none"
    /\ UNCHANGED <<alphabet, scanMode, text, received, pc, parsedFindings, revenueFindings,
                   threw, appVars>>

ChatErrorMessages == { <<"R", "e", "q", "u", "e", "s", "t", " ", "t", "i", "m", "e", "d", " ", "o", "u", "t", ".", " ", "P", "l", "e", "a", "s", "e", " ", "t", "r", "y", " ", "a", " ", "s", "h", "o", "r", "t", "e", "r", " ", "q", "u", "e", "s", "t", "i", "o", "n", " ", "o", "r", " ", "c", "h", "e", "c", "k", " ", "y", "o", "u", "r", " ", "c", "o", "n", "n", "e", "c", "t", "i", "o", "n", ".">> }

NextChat ==
    \/ RunScan
    \/ \E result \in Responses(running) : ScanResolves(result)
    \/ \E message \in ErrorMessages : ScanRejects(message)
    \/ SendMessage
    \/ \E k \in 1..Len(ChatChunks) : StreamChunk(k)
    \/ ChatResolves
    \/ \E message \in ChatErrorMessages : ChatRejects(message)

SpecChat == InitApp /\ [][NextChat]_vars

-----------------------------------------------------------------------------
(* fetchWithRetry of BriefView.jsx, called by callBriefAPI: the requests   *)
(* it issues, the responses it gets and the timers it waits for.           *)

MaxRetries == 4

\* retries = 3 in the parameter list
DefaultRetries == 3

\* the status codes of the responses: 429 and others, ok and not ok
Statuses == {200, 429, 500, 503}

\* Wait with the same delay after every 429
WaitFlat(i) == 8000

\* const wait = (i + 1) * 8000, in milliseconds
Wait(i) == (i + 1) * 8000

\* callBriefAPI calls fetchWithRetry(url, options); other callers may pass
\* retries
InitFetch ==
    /\ alphabet = "fetch"
    /\ scanMode = "operational"
    /\ text = <<>>
    /\ received = 0
    /\ pc = "idle"
    /\ parsedFindings = <<>>
    /\ revenueFindings = <<>>
    /\ threw = FALSE
    /\ invoked = "none"
    /\ NoScanYet
    /\ NoChatYet
    /\ \E passed \in BOOLEAN : \E value \in 0..MaxRetries :
           fetching = [retries |-> IF passed THEN value ELSE DefaultRetries,
                       i |-> IF passed THEN 0 ELSE -1, pc |-> "call", res |-> 0,
                       error |-> "none", requests |-> 0, statuses |-> <<>>, waits |-> <<>>]

NotFetching ==
    UNCHANGED <<alphabet, scanMode, text, received, pc, parsedFindings, revenueFindings,
                threw, invoked, chatMsgs, streaming, scanResults, revenueScanResults,
                resolvedFindings, store, scanning, running, sinceReset>>

\* the call binds the parameters (retries = 3 when none is passed) and
\* `let i = 0`
BindParameters ==
    /\ fetching.pc = "call"
    /\ fetching' = [fetching EXCEPT !.pc = "loop", !.i = 0]
    /\ NotFetching

\* i < retries holds: fetch(url, options) is called and awaited
IssueFetch ==
    /\ fetching.pc = "loop"
    /\ fetching.i < fetching.retries
    /\ fetching' = [fetching EXCEPT !.pc = "fetch", !.requests = @ + 1]
    /\ NotFetching

\* i < retries fails: throw new Error("Rate limited after retries. ...")
ThrowRateLimited ==
    /\ fetching.pc = "loop"
    /\ ~(fetching.i < fetching.retries)
    /\ fetching' = [fetching EXCEPT !.pc = "threw", !.error = "Rate limited after retries"]
    /\ NotFetching

\* the fetch resolves: a 429 starts the timer, any other response is returned
FetchResolves(status) ==
    /\ fetching.pc = "fetch"
    /\ fetching' =
           IF status = 429
           THEN [fetching EXCEPT !.pc = "wait", !.statuses = Append(@, status),
                                 !.waits = Append(@, Wait(fetching.i))]
           ELSE [fetching EXCEPT !.pc = "returned", !.statuses = Append(@, status),
                                 !.res = status]
    /\ NotFetching

\* the fetch rejects (network error): the exception leaves fetchWithRetry
FetchRejects ==
    /\ fetching.pc = "fetch"
    /\ fetching' = [fetching EXCEPT !.pc = "threw", !.error = "Failed to fetch"]
    /\ NotFetching

\* the timer fires: continue, i++
TimerFires ==
    /\ fetching.pc = "wait"
    /\ fetching' = [fetching EXCEPT !.pc = "loop", !.i = @ + 1]
    /\ NotFetching

\* callBriefAPI after the await: if (!resp.ok) throw ...; return data.text
BriefContinues ==
    /\ fetching.pc = "returned"
    /\ fetching' = IF fetching.res \in 200..299
                   THEN [fetching EXCEPT !.pc = "text"]
                   ELSE [fetching EXCEPT !.pc = "api error", !.error = "API error"]
    /\ NotFetching

NextFetch ==
    \/ BindParameters
    \/ IssueFetch
    \/ ThrowRateLimited
    \/ \E status \in Statuses : FetchResolves(status)
    \/ FetchRejects
    \/ TimerFires
    \/ BriefContinues

SpecFetch == InitFetch /\ [][NextFetch]_vars

-----------------------------------------------------------------------------
(* What the specification says of a response text, stated on the text      *)
(* itself and not through the operators above.                             *)

Parsed == pc = "parsed"

\* the list the parser call of this behaviour returned
Records == IF scanMode = "operational" THEN parsedFindings ELSE revenueFindings

\* the same letter, in either case
SameLetter(c, d) ==
    \/ c = d
    \/ c \in DOMAIN LowerToUpper /\ LowerToUpper[c] = d
    \/ d \in DOMAIN LowerToUpper /\ LowerToUpper[d] = c

\* word occurs in s from the 1-based position p on, in any case
OccursAt(s, p, word) ==
    /\ p + Len(word) - 1 <= Len(s)
    /\ \A k \in 1..Len(word) : SameLetter(s[p + k - 1], word[k])

\* a record header "<KEYWORD> <number>" starts at the 1-based position p
HeaderStartsAt(s, p, keyword) ==
    /\ OccursAt(s, p, keyword)
    /\ \E d \in (p + Len(keyword) + 1)..Len(s) :
          /\ s[d] \in Digits
          /\ \A w \in (p + Len(keyword))..(d - 1) : IsSpace(s[w])

HeaderStarts(s, keyword) == {p \in 1..Len(s) : HeaderStartsAt(s, p, keyword)}

\* the segment of the header at p: up to just before the next header, or to
\* the end of the text
SegmentAt(s, p, keyword) ==
    LET later == {q \in HeaderStarts(s, keyword) : q > p}
    IN  IF later = {} THEN SubSeq(s, p, Len(s))
        ELSE SubSeq(s, p, (CHOOSE q \in later : \A r \in later : q <= r) - 1)

\* the headers of s in the order they occur
RECURSIVE InOrder(_)
InOrder(ps) ==
    IF ps = {} THEN <<>>
    ELSE LET p == CHOOSE q \in ps : \A r \in ps : q <= r
         IN  <<p>> \o InOrder(ps \ {p})

\* s without its leading and trailing whitespace
Trimmed(s) ==
    LET solid == {i \in 1..Len(s) : ~IsSpace(s[i])}
    IN  IF solid = {} THEN <<>>
        ELSE SubSeq(s, CHOOSE i \in solid : \A j \in solid : i <= j,
                       CHOOSE i \in solid : \A j \in solid : i >= j)

\* the text that follows the first "<LABEL>:" of the segment, in any case,
\* up to the next newline, trimmed; empty when the segment has no "<LABEL>:"
FieldText(segment, label) ==
    LET tag == label \o <<":">>
        at == {p \in 1..Len(segment) : OccursAt(segment, p, tag)}
    IN  IF at = {} THEN <<>>
        ELSE LET p == CHOOSE q \in at : \A r \in at : q <= r
                 from == p + Len(tag)
                 stops == {n \in from..Len(segment) : segment[n] = "\n"}
                 to == IF stops = {} THEN Len(segment)
                       ELSE (CHOOSE n \in stops : \A m \in stops : n <= m) - 1
             IN  Trimmed(SubSeq(segment, from, to))

PATTERN == <<"P", "A", "T", "T", "E", "R", "N">>
SEVERITY == <<"S", "E", "V", "E", "R", "I", "T", "Y">>

\* the segments of the text whose PATTERN field, as the parser extracts it,
\* is not empty, in the order of their headers
ExtractedPattern(segment) ==
    IF scanMode = "operational" THEN GetField(segment, PATTERN)
    ELSE GetFieldRevenue(segment, PATTERN)

HasPattern(segment) == ExtractedPattern(segment) # <<>>

AllSegments ==
    LET starts == InOrder(HeaderStarts(text, Keyword(scanMode)))
    IN  [i \in 1..Len(starts) |-> SegmentAt(text, starts[i], Keyword(scanMode))]

AdmittedSegments == SelectSeq(AllSegments, HasPattern)

\* the text begins with an error indicator, which parseFindings declines
BeginsWithError == OccursAt(text, 1, <<"E", "R", "R", "O", "R">>)

-----------------------------------------------------------------------------
(* The claims.                                                             *)

\* C1: every record returned by parseFindings and by parseRevenueFindings
\* has a non-empty pattern field.
AdmissionInvariant ==
    Parsed => \A i \in 1..Len(Records) : Records[i].pattern # <<>>

\* a text with more headers than records: a segment without a pattern was
\* dropped while another was admitted
AdmissionWitness ==
    /\ Parsed
    /\ Len(Records) >= 1
    /\ Len(AllSegments) > Len(Records)

ErrorShortCircuit ==
    (Parsed /\ scanMode = "operational" /\ HasAt(text, 0, <<"E", "r", "r", "o", "r">>))
        => parsedFindings = <<>>

\* an error text that holds a FINDING segment with a non-empty PATTERN
ErrorShortCircuitWitness ==
    /\ Parsed
    /\ scanMode = "operational"
    /\ HasAt(text, 0, <<"E", "r", "r", "o", "r">>)
    /\ \E i \in 1..Len(AllSegments) : FieldText(AllSegments[i], PATTERN) # <<>>

\* the text of the field the amounts are read from: IMPACT of a Finding,
\* REVENUE POTENTIAL of an Opportunity
AmountText(record) ==
    IF scanMode = "operational" THEN record.impact ELSE record.potential

\* the maximal runs of digits and commas of s, as pairs of 1-based positions
MaximalRuns(s) ==
    {run \in (1..Len(s)) \X (1..Len(s)) :
        /\ run[1] <= run[2]
        /\ \A k \in run[1]..run[2] : s[k] \in Digits \cup {","}
        /\ run[1] = 1 \/ s[run[1] - 1] \notin Digits \cup {","}
        /\ run[2] = Len(s) \/ s[run[2] + 1] \notin Digits \cup {","}}

\* the integer written by the digits of s[from..to], commas left out
RECURSIVE NumberIn(_, _, _)
NumberIn(s, from, to) ==
    IF to < from THEN 0
    ELSE IF s[to] = "," THEN NumberIn(s, from, to - 1)
    ELSE 10 * NumberIn(s, from, to - 1) + DigitValue[s[to]]

\* the largest number of s that is greater than 999, or 0 when there is none
LargestAmount(s) ==
    LET qualifying == {n \in {NumberIn(s, run[1], run[2]) : run \in MaximalRuns(s)} :
                          n > 999}
    IN  IF qualifying = {} THEN 0
        ELSE CHOOSE n \in qualifying : \A m \in qualifying : m <= n

\* C4: maxAmount is the maximum, over the maximal runs of digits and commas
\* of the field text, of the values greater than 999, and 0 when no value
\* qualifies; "RM 180,000 - RM 320,000" gives 320000.
AmountExtraction ==
    Parsed => \A i \in 1..Len(Records) :
        /\ Records[i].maxAmount = LargestAmount(AmountText(Records[i]))
        /\ AmountText(Records[i]) = <<"R", "M", " ", "1", "8", "0", ",", "0", "0", "0", " ", "-", " ", "R", "M", " ", "3", "2", "0", ",", "0", "0", "0">>
              => Records[i].maxAmount = 320000

\* the range of the specification was parsed
AmountExtractionWitness ==
    /\ Parsed
    /\ Len(Records) = 1
    /\ AmountText(Records[1]) = <<"R", "M", " ", "1", "8", "0", ",", "0", "0", "0", " ", "-", " ", "R", "M", " ", "3", "2", "0", ",", "0", "0", "0">>
    /\ Records[1].maxAmount = 320000

\* C5: dailyCost of a Finding is maxAmount / 30 rounded to the nearest
\* integer when maxAmount > 0, and 0 when maxAmount is 0; both are
\* non-negative integers.
DailyCostDerivation ==
    (Parsed /\ scanMode = "operational") => \A i \in 1..Len(parsedFindings) :
        LET M == parsedFindings[i].maxAmount
            d == parsedFindings[i].dailyCost
        IN  /\ M \in Nat /\ d \in Nat
            /\ M = 0 => d = 0
            /\ M > 0 => (2 * M - 30 < 60 * d /\ 60 * d <= 2 * M + 30)

\* a Finding whose amount is no multiple of 30: 320000 / 30 = 10666.67
DailyCostWitness ==
    /\ Parsed
    /\ scanMode = "operational"
    /\ \E i \in 1..Len(parsedFindings) :
          parsedFindings[i].maxAmount = 320000 /\ parsedFindings[i].dailyCost = 10667

\* C6: every Finding returned by parseFindings has a tier that is one of
\* the three strings "1", "2", "3".
TierIsOneOfThree ==
    (Parsed /\ scanMode = "operational") => \A i \in 1..Len(parsedFindings) :
        parsedFindings[i].tier \in {<<"1">>, <<"2">>, <<"3">>}

\* s holds a token "Tier <digit>", in any case, with or without whitespace
\* between the word and the digit
HasTierToken(s) ==
    \E p \in 1..Len(s) : \E d \in (p + 4)..Len(s) :
        /\ OccursAt(s, p, <<"T", "I", "E", "R">>)
        /\ s[d] \in Digits
        /\ \A w \in (p + 4)..(d - 1) : IsSpace(s[w])

\* C7: a FINDING segment that has no SEVERITY field, or whose SEVERITY text
\* holds no "Tier <digit>" token, produces a Finding with tier "2".
DefaultTier ==
    (Parsed /\ scanMode = "operational" /\ Len(parsedFindings) = Len(AdmittedSegments))
        => \A i \in 1..Len(parsedFindings) :
              ~HasTierToken(FieldText(AdmittedSegments[i], SEVERITY))
                  => parsedFindings[i].tier = <<"2">>

\* the labels of the two record templates
FindingLabels ==
    { PATTERN, <<"E", "V", "I", "D", "E", "N", "C", "E">>, <<"R", "E", "C", "U", "R", "R", "E", "N", "C", "E">>, <<"I", "M", "P", "A", "C", "T">>, <<"R", "O", "O", "T", " ", "C", "A", "U", "S", "E">>, <<"F", "I", "X">>,
      SEVERITY, <<"C", "O", "N", "F", "I", "D", "E", "N", "C", "E">>, <<"A", "S", "S", "U", "M", "P", "T", "I", "O", "N", "S">> }

OpportunityLabels ==
    { <<"C", "A", "T", "E", "G", "O", "R", "Y">>, PATTERN, <<"E", "V", "I", "D", "E", "N", "C", "E">>, <<"R", "E", "V", "E", "N", "U", "E", " ", "P", "O", "T", "E", "N", "T", "I", "A", "L">>, <<"T", "I", "M", "E", "F", "R", "A", "M", "E">>,
      <<"A", "C", "T", "I", "O", "N">>, <<"C", "O", "N", "F", "I", "D", "E", "N", "C", "E">>, <<"A", "S", "S", "U", "M", "P", "T", "I", "O", "N", "S">> }

\* C9: getField of either parser returns the text that follows the first
\* case-insensitive occurrence of "<LABEL>:" in the segment up to the next
\* newline, trimmed, and the empty string when the segment has no "<LABEL>:".
FieldExtractorContract ==
    Parsed => \A i \in 1..Len(AllSegments) :
        IF scanMode = "operational"
        THEN \A label \in FindingLabels :
                GetField(AllSegments[i], label) = FieldText(AllSegments[i], label)
        ELSE \A label \in OpportunityLabels :
                GetFieldRevenue(AllSegments[i], label) = FieldText(AllSegments[i], label)

\* the number written in the header a segment starts with
HeaderNumber(segment) ==
    LET keyword == Keyword(scanMode)
        first == CHOOSE d \in (Len(keyword) + 1)..Len(segment) :
                     /\ segment[d] \in Digits
                     /\ \A w \in (Len(keyword) + 1)..(d - 1) : segment[w] \notin Digits
        last == CHOOSE e \in first..Len(segment) :
                     /\ \A k \in first..e : segment[k] \in Digits
                     /\ e = Len(segment) \/ segment[e + 1] \notin Digits
    IN  NumberIn(segment, first, last)

ParserResult(t) ==
    IF scanMode = "operational" THEN parseFindings(t).value
    ELSE parseRevenueFindings(t).value

\* the text from its first record header on
FromFirstHeader ==
    LET starts == HeaderStarts(text, Keyword(scanMode))
    IN  SubSeq(text, CHOOSE p \in starts : \A q \in starts : p <= q, Len(text))

\* C10 as stated: the text before the first record header is discarded,
\* parse(preamble + body) = parse(body) for every preamble without a header,
\* and a text without any header yields the empty list.
PreambleDiscarded ==
    Parsed =>
        IF HeaderStarts(text, Keyword(scanMode)) = {} THEN Records = <<>>
        ELSE Records = ParserResult(FromFirstHeader)

\* C10 as amended: the same, except for parseFindings on a preamble that
\* begins with "Error", where the result is the empty list.
PreambleDiscardedUnlessError ==
    Parsed =>
        IF HeaderStarts(text, Keyword(scanMode)) = {} THEN Records = <<>>
        ELSE IF scanMode = "operational" /\ BeginsWithError THEN Records = <<>>
        ELSE Records = ParserResult(FromFirstHeader)

\* a text with a non-empty preamble that is no error text, and records
\* parsed from what follows it
PreambleDiscardedWitness ==
    /\ Parsed
    /\ ~BeginsWithError
    /\ HeaderStarts(text, Keyword(scanMode)) # {}
    /\ 1 \notin HeaderStarts(text, Keyword(scanMode))
    /\ Records # <<>>

-----------------------------------------------------------------------------
(* C11: for every Opportunity returned by parseRevenueFindings, isQuickWin *)
(* is true exactly when the extracted TIMEFRAME text contains "quick win"  *)
(* in any letter case, or the day range "0-90", or "0" U+2013 "90"; for    *)
(* every other timeframe text it is false.                                 *)

\* word occurs somewhere in s, letters compared in any case
ContainsAnyCase(s, word) == \E p \in 1..Len(s) : OccursAt(s, p, word)

\* lit occurs somewhere in s, character for character
Contains(s, lit) ==
    \E p \in 1..Len(s) :
        /\ p + Len(lit) - 1 <= Len(s)
        /\ \A k \in 1..Len(lit) : s[p + k - 1] = lit[k]

NamesQuickWin(timeframe) ==
    \/ ContainsAnyCase(timeframe, <<"q", "u", "i", "c", "k", " ", "w", "i", "n">>)
    \/ Contains(timeframe, <<"0", "-", "9", "0">>)
    \/ Contains(timeframe, <<"0", "endash", "9", "0">>)

QuickWinExactly ==
    (Parsed /\ scanMode = "revenue")
        => \A i \in 1..Len(revenueFindings) :
              revenueFindings[i].isQuickWin
                  <=> NamesQuickWin(revenueFindings[i].timeframe)

-----------------------------------------------------------------------------
(* C12: every record returned by either parser has all of its text fields  *)
(* present as strings (the empty string when a label is missing) and has   *)
(* maxAmount, dailyCost, tier and id populated.                            *)

FindingTextFields ==
    {"pattern", "evidence", "recurrence", "impact", "rootCause", "fix",
     "confidence", "assumptions"}

OpportunityTextFields ==
    {"category", "pattern", "evidence", "potential", "timeframe", "action",
     "confidence", "assumptions"}

TextFields == IF scanMode = "operational" THEN FindingTextFields ELSE OpportunityTextFields

\* a string of the model: a sequence of characters
IsString(v) == v \in Seq(STRING)

\* a number that is not NaN
IsNumber(v) == v \in Nat

\* a tier that was filled in: one digit
IsTier(v) == IsString(v) /\ Len(v) = 1 /\ v[1] \in Digits

TextFieldsAreStrings(record) ==
    /\ TextFields \subseteq DOMAIN record
    /\ \A f \in TextFields : IsString(record[f])

-----------------------------------------------------------------------------
(* C13: the id of each record equals the integer written in its header     *)
(* line; the positional fallback (current list length + 1) is used only    *)
(* when no header number can be parsed, which no segment that reaches the  *)
(* id computation allows.                                                  *)
IdIsHeaderNumber ==
    Parsed =>
        /\ \A j \in 1..Len(AllSegments) :
              ~MatchHeaderNumber(AllSegments[j], Keyword(scanMode)).null
        /\ Len(Records) = Len(AdmittedSegments)
              => \A i \in 1..Len(Records) :
                    Records[i].id = HeaderNumber(AdmittedSegments[i])

\* the first record of the list carries the number 2 of its header, and a
\* header without a PATTERN came before it
IdIsHeaderNumberWitness ==
    /\ Parsed
    /\ Len(AllSegments) = 2
    /\ Len(Records) = 1
    /\ Records[1].id = 2

-----------------------------------------------------------------------------
(* The rollups, stated on the findings list and the resolved ids alone.    *)

\* the ids marked resolved
ResolvedIds == {resolvedFindings[j] : j \in DOMAIN resolvedFindings}

\* the positions in the findings list of the findings not marked resolved
ActiveIndices == {k \in DOMAIN parsedFindings : parsedFindings[k].id \notin ResolvedIds}

RECURSIVE SumOfMaxAmounts(_)
SumOfMaxAmounts(indices) ==
    IF indices = {} THEN 0
    ELSE LET k == CHOOSE k \in indices : TRUE
         IN  parsedFindings[k].maxAmount + SumOfMaxAmounts(indices \ {k})

\* C14: in every view that shows them (dashboard cards, scan view header,
\* board report) the active findings are the parsed findings whose id is not
\* in the resolved set and the total exposure is the sum of maxAmount over
\* exactly those; all three views compute the same values.
RollupsAgree ==
    \A view \in {DashboardCards, ScanViewHeader, BoardReport} :
        /\ view.active = Cardinality(ActiveIndices)
        /\ view.exposure = SumOfMaxAmounts(ActiveIndices)

\* three findings with the amounts 3,000, 9,000 and 6,000, the second one
\* resolved
RollupsAgreeWitness ==
    /\ Len(parsedFindings) = 3
    /\ resolvedFindings = <<2>>
    /\ DashboardCards = [active |-> 2, exposure |-> 9000]
    /\ ScanViewHeader = [active |-> 2, exposure |-> 9000]
    /\ BoardReport = [active |-> 2, exposure |-> 9000]

-----------------------------------------------------------------------------
\* the tier of a finding as a number, and its key in the priority order
TierNumber(f) == DigitValue[f.tier[1]]

\* the finding at position m comes before the one at position k in the
\* priority order: higher tier, then higher dailyCost, then earlier in the
\* findings list
ComesBefore(m, k) ==
    LET f == parsedFindings[m]
        g == parsedFindings[k]
    IN  \/ TierNumber(f) > TierNumber(g)
        \/ TierNumber(f) = TierNumber(g) /\ f.dailyCost > g.dailyCost
        \/ TierNumber(f) = TierNumber(g) /\ f.dailyCost = g.dailyCost /\ m < k

\* how many active findings come before the one at position k
Rank(k) == Cardinality({m \in ActiveIndices : m # k /\ ComesBefore(m, k)})

\* C15: the priority order sorts the active findings by tier descending,
\* then by dailyCost descending, stably with respect to the order of the
\* findings list; the dashboard's priority list follows this order (it shows
\* the first three).
PriorityOrder ==
    /\ Len(TopPriorities) = IF Cardinality(ActiveIndices) <= 3 THEN Cardinality(ActiveIndices) ELSE 3
    /\ \A k \in ActiveIndices :
          Rank(k) < 3 => TopPriorities[Rank(k) + 1] = parsedFindings[k]

\* three active findings listed in the reverse of their list order: the
\* tier 3 finding first, then the larger daily cost
PriorityOrderWitness ==
    /\ Len(parsedFindings) = 3
    /\ resolvedFindings = <<>>
    /\ TopPriorities = <<parsedFindings[3], parsedFindings[2], parsedFindings[1]>>
    /\ parsedFindings[3].tier = <<"3">>
    /\ parsedFindings[2].dailyCost = 300
    /\ parsedFindings[1].dailyCost = 100

-----------------------------------------------------------------------------
(* C16: the health ratio equals the number of resolved ids divided by the  *)
(* number of parsed findings, and 0 when there are no findings; the band   *)
(* is good (green) when the ratio is at least 0.7, warning (amber) when it *)
(* is at least 0.3 and below 0.7, and critical (red) otherwise.            *)
HealthBands ==
    LET r == Cardinality(ResolvedIds)
        t == Len(parsedFindings)
        pct == DashboardHealth.pct
        band == DashboardHealth.strokeColor
    IN  /\ pct.den > 0
        /\ t = 0 => pct.num = 0
        /\ t > 0 => pct.num * t = r * pct.den
        /\ band = "#10B981" <=> 10 * pct.num >= 7 * pct.den
        /\ band = "#F59E0B" <=> (10 * pct.num >= 3 * pct.den /\ 10 * pct.num < 7 * pct.den)
        /\ band = "#EF4444" <=> 10 * pct.num < 3 * pct.den

\* one of three findings resolved: the ratio 1/3 is in the warning band
HealthBandsWitness ==
    /\ Len(parsedFindings) = 3
    /\ Len(resolvedFindings) = 1
    /\ DashboardHealth.strokeColor = "#F59E0B"

-----------------------------------------------------------------------------
(* Steps of the scan lifecycle, told apart by what they change.            *)

\* a runScan call ends: it is the only step that counts a response
ScanFinishes == received' = received + 1

\* a step of runScan, which alone writes the scanning flag
RunScanStep == scanning' # scanning

\* resetAll clears both results and the resolved ids
ResetStep ==
    /\ scanResults' = Null
    /\ revenueScanResults' = Null
    /\ resolvedFindings' = <<>>
    /\ parsedFindings' = <<>>

\* a toggle changes the resolved ids while the operational results stay
ToggleStep ==
    /\ resolvedFindings' # resolvedFindings
    /\ ~scanResults.null
    /\ scanResults' = scanResults

(* C17: after a scan finishes, whatever its outcome (records found, no     *)
(* records, empty response text, upstream error), the findings list is     *)
(* exactly the list obtained by parsing that run's response text; the      *)
(* previously parsed records are entirely replaced.                        *)
ScanReplacesFindings ==
    [][ScanFinishes =>
          IF running = "revenue"
          THEN revenueFindings' = parseRevenueFindings(text').value
          ELSE parsedFindings' = parseFindings(text').value]_vars

(* C18: runScan, in either mode, on success or on failure, leaves the set  *)
(* of resolved ids unchanged, in memory and in the persisted store.        *)
ScanKeepsResolved ==
    [][RunScanStep =>
          /\ resolvedFindings' = resolvedFindings
          /\ store'.resolved = store.resolved]_vars

\* a second scan finished and left a resolved id that its two findings do
\* not carry, in memory and in the store
ScanKeepsResolvedWitness ==
    /\ pc = "idle"
    /\ received = 2
    /\ Len(parsedFindings) = 2
    /\ 3 \in ResolvedIds
    /\ store.resolved = [null |-> FALSE, value |-> resolvedFindings]

(* C19: toggling changes the resolved set, and with it the active findings *)
(* and the total exposure, but leaves parsedFindings unchanged; the rollup  *)
(* computations of a render (filter, sort, sum) never mutate the findings  *)
(* list: only the end of a scan and resetAll replace it, and while a       *)
(* results text is shown the list is as the parser returned it.            *)
ToggleKeepsFindings ==
    [][/\ ToggleStep =>
             /\ parsedFindings' = parsedFindings
             /\ DashboardCards'.active # DashboardCards.active
       /\ parsedFindings' # parsedFindings => (ScanFinishes \/ ResetStep)
       /\ scanResults'.text # <<>> =>
             parsedFindings' = parseFindings(scanResults'.text).value]_vars

\* the third finding was toggled: the cards are shown with it first, the
\* findings list still has it last
ToggleKeepsFindingsWitness ==
    /\ resolvedFindings = <<3>>
    /\ Len(parsedFindings) = 3
    /\ ScanViewCards[1].id = 3
    /\ parsedFindings[3].id = 3
    /\ TopPriorities[1].id = 2

(* C20: toggleResolvedFinding(id) adds id to the resolved set when absent   *)
(* and removes it when present, changing the membership of no other id;    *)
(* toggling the same id twice restores the original set.                   *)
ToggleMembership ==
    [][ToggleStep =>
          \E id \in CardIds :
              /\ \/ id \notin ResolvedIds /\ ResolvedIds' = ResolvedIds \cup {id}
                 \/ id \in ResolvedIds /\ ResolvedIds' = ResolvedIds \ {id}
              /\ LET again == Toggled(resolvedFindings', id)
                 IN  {again[j] : j \in DOMAIN again} = ResolvedIds]_vars

\* the third finding was resolved, then the first
ToggleMembershipWitness ==
    /\ Len(parsedFindings) = 3
    /\ resolvedFindings = <<3, 1>>
    /\ store.resolved.value = <<3, 1>>


\* C21: parseRevenueFindings of a text that begins with "Error" is the empty
\* list, also when the text holds an OPPORTUNITY header followed by a
\* non-empty PATTERN field.
RevenueErrorShortCircuit ==
    (Parsed /\ scanMode = "revenue" /\ HasAt(text, 0, <<"E", "r", "r", "o", "r">>))
        => revenueFindings = <<>>


\* the sections of the text, as parseFindings splits it
FindingParts == SplitBeforeHeaders(text, FINDING)

\* the sections whose callback raises an exception when it runs on the
\* records of the sections before it
RECURSIVE RecordsBefore(_)
RecordsBefore(i) ==
    IF i = 1 THEN <<>>
    ELSE LET r == FindingSection(FindingParts[i - 1], RecordsBefore(i - 1))
         IN  IF r.threw THEN <<>> ELSE r.value

ThrowingSections ==
    {i \in 1..Len(FindingParts) :
        /\ \A j \in 1..(i - 1) : ~FindingSection(FindingParts[j], RecordsBefore(j)).threw
        /\ FindingSection(FindingParts[i], RecordsBefore(i)).threw}

\* C22: when a step throws while parseFindings processes a segment, the
\* function returns the records accumulated from the earlier segments
\* (partial results) and does not discard them.
PartialResultsOnThrow ==
    (Parsed /\ scanMode = "operational" /\ ~BeginsWithError)
        => \A i \in ThrowingSections :
              /\ ~threw
              /\ parsedFindings = RecordsBefore(i)


\* C23: when the upstream request of a scan is aborted or fails, neither
\* parseFindings nor parseRevenueFindings is invoked for that attempt.
FailedScanInvokesNoParser ==
    /\ invoked = "parseFindings" => ~scanResults.error
    /\ invoked = "parseRevenueFindings" => ~revenueScanResults.error


\* a step in which a chunk of a streamed answer arrived
ChunkStep == streaming /\ streaming' /\ chatMsgs' # chatMsgs

\* the whole texts a call of callClaudeSync can end with in runScan
SettledTexts ==
    UNION {Responses(mode) : mode \in ScanModes}
        \cup {ErrorText(message) : message \in ErrorMessages}

\* C24: the parsers are applied to complete, settled response texts only: a
\* step that invokes a parser is the end of a scan and the parser runs on
\* the whole text the call returned, and a step in which a streamed chunk
\* arrives changes the chat text only and invokes no parser.
ParsersOnSettledTextOnly ==
    [][ /\ invoked' # "none" =>
              /\ ScanFinishes
              /\ text' \in SettledTexts
              /\ invoked' = "parseFindings" =>
                     /\ scanResults'.text = text'
                     /\ parsedFindings' = parseFindings(text').value
              /\ invoked' = "parseRevenueFindings" =>
                     /\ revenueScanResults'.text = text'
                     /\ revenueFindings' = parseRevenueFindings(text').value
        /\ ChunkStep =>
              /\ invoked' = "none"
              /\ chatMsgs'[Len(chatMsgs')].content # <<>>
              /\ UNCHANGED <<parsedFindings, revenueFindings, scanResults,
                             revenueScanResults, store>> ]_vars

\* the first chunk of a streamed answer, which holds a FINDING record, is
\* shown in the chat while the findings are those of the scan that settled
\* before
ParsersOnSettledTextOnlyWitness ==
    /\ streaming
    /\ chatMsgs # <<>>
    /\ chatMsgs[Len(chatMsgs)].content = Full(1)
    /\ Len(parseFindings(Full(1)).value) = 1
    /\ scanResults.text = ThreeFindings
    /\ Len(parsedFindings) = 3


\* the lines of the text, each without its newline; the text ends with one
Newlines == InOrder({i \in 1..Len(text) : text[i] = "\n"})

Lines ==
    [j \in 1..Len(Newlines) |->
        SubSeq(text, IF j = 1 THEN 1 ELSE Newlines[j - 1] + 1, Newlines[j] - 1)]

ExpectedLabels == IF scanMode = "operational" THEN FindingLabels ELSE OpportunityLabels

\* the field lines that start with "<LABEL>:"
LinesOf(label) ==
    {j \in 2..Len(Lines) : OccursAt(Lines[j], 1, label \o <<":">>)}

\* some "<LABEL>:" occurs in s from the position p on
HoldsLabelFrom(s, p) ==
    \E label \in ExpectedLabels : \E q \in p..Len(s) : OccursAt(s, q, label \o <<":">>)

\* one segment: a header line without a label, then one line for each
\* expected label, whose content holds no label followed by a colon
WellFormedSegment ==
    /\ text # <<>>
    /\ text[Len(text)] = "\n"
    /\ HeaderStarts(text, Keyword(scanMode)) = {1}
    /\ ~HoldsLabelFrom(Lines[1], 1)
    /\ Len(Lines) = 1 + Cardinality(ExpectedLabels)
    /\ \A label \in ExpectedLabels :
          /\ Cardinality(LinesOf(label)) = 1
          /\ \A j \in LinesOf(label) : ~HoldsLabelFrom(Lines[j], Len(label) + 2)

\* the field lines of the given labels in one fixed order
RECURSIVE FieldLines(_)
FieldLines(labels) ==
    IF labels = {} THEN <<>>
    ELSE LET label == CHOOSE l \in labels : TRUE
             j == CHOOSE k \in LinesOf(label) : TRUE
         IN  Lines[j] \o <<"\n">> \o FieldLines(labels \ {label})

\* the segment with its field lines permuted into that order
Reordered == Lines[1] \o <<"\n">> \o FieldLines(ExpectedLabels)

\* C25: for a segment in which each expected label occurs exactly once at
\* the start of its own line and no field's content holds a label followed
\* by a colon, the record the parser produces does not depend on the order
\* of the field lines: it is the record of the same lines in any other
\* order.
FieldOrderTolerated ==
    (Parsed /\ WellFormedSegment) => Records = ParserResult(Reordered)

\* the same for segments without a character whose upper case is longer
\* than the character
FieldOrderToleratedPlain ==
    (Parsed /\ WellFormedSegment /\ \A i \in 1..Len(text) : text[i] # "eszett")
        => Records = ParserResult(Reordered)

\* a well-formed segment whose lines are not in the fixed order
FieldOrderToleratedPlainWitness ==
    /\ Parsed
    /\ WellFormedSegment
    /\ \A i \in 1..Len(text) : text[i] # "eszett"
    /\ text # Reordered
    /\ Len(Records) = 1


\* C26: after any sequence of scans, re-scans and toggles the number of
\* resolved ids shown does not exceed the number of parsed findings: the
\* health ratio is within [0, 1] and the active count plus the resolved
\* count is the number of findings.
ResolvedWithinTotal ==
    /\ Len(resolvedFindings) <= Len(parsedFindings)
    /\ DashboardHealth.pct.num >= 0
    /\ DashboardHealth.pct.num <= DashboardHealth.pct.den
    /\ DashboardCards.active + Len(resolvedFindings) = Len(parsedFindings)


\* the positions of the findings whose active / resolved status a step changed
StatusChanged ==
    {k \in DOMAIN parsedFindings :
        (parsedFindings[k].id \in ResolvedIds) # (parsedFindings[k].id \in ResolvedIds')}

\* C27: the ids of the findings returned by one parseFindings call are
\* pairwise distinct, and toggling the resolved state from one finding's
\* card changes the status of exactly that one finding.
DistinctIds ==
    [][ /\ \A i, j \in DOMAIN parsedFindings' :
              i # j => parsedFindings'[i].id # parsedFindings'[j].id
        /\ ToggleStep => Cardinality(StatusChanged) = 1 ]_vars


\* C28: after resetAll, as long as no new scan is started, the scan
\* results, the parsed findings and the stored dao-scan and dao-revenue-scan
\* entries stay empty, also when a scan request was in flight at the reset
\* and completes afterwards.
ResetStaysEmpty ==
    sinceReset =>
        /\ scanResults = Null
        /\ revenueScanResults = Null
        /\ parsedFindings = <<>>
        /\ revenueFindings = <<>>
        /\ store.scan = Null
        /\ store.revenueScan = Null


FetchEnded == fetching.pc \in {"returned", "threw", "text", "api error"}

RateLimited == fetching.pc = "threw" /\ fetching.error = "Rate limited after retries"

\* C30: fetchWithRetry issues at most `retries` (3 when none is passed)
\* requests, one after another; it returns the first response whose status
\* is not 429 and issues no request after it; it throws the rate-limit
\* error exactly when all `retries` responses had status 429; and after the
\* i-th 429 response (0-based) it waits (i + 1) * 8 seconds.
FetchWithRetryContract ==
    LET f == fetching
        answered == Len(f.statuses)
        lost == IF f.pc = "threw" /\ f.error = "Failed to fetch" THEN 1 ELSE 0
        inFlight == IF f.pc = "fetch" THEN 1 ELSE 0
        all429 == \A k \in 1..answered : f.statuses[k] = 429
    IN  f.pc \notin {"idle", "call"} =>
            /\ f.requests <= f.retries
            /\ f.requests = answered + lost + inFlight
            /\ \A k \in 1..(answered - 1) : f.statuses[k] = 429
            /\ f.pc \in {"returned", "text", "api error"} =>
                   /\ f.res = f.statuses[answered]
                   /\ f.res # 429
            /\ FetchEnded => (RateLimited <=> (answered = f.retries /\ all429 /\ lost = 0))
            /\ Len(f.waits) = Cardinality({k \in 1..answered : f.statuses[k] = 429})
            /\ \A k \in 1..Len(f.waits) : f.waits[k] = k * 8 * 1000

\* called without retries, the third request was answered by 429 after
\* waits of 8 and 16 seconds, a wait of 24 seconds followed and the
\* rate-limit error was thrown
FetchWithRetryContractWitness ==
    /\ RateLimited
    /\ fetching.requests = 3
    /\ fetching.retries = DefaultRetries
    /\ fetching.waits = <<8000, 16000, 24000>>

=============================================================================
